---- MODULE Spec2Model ----
(***************************************************************************)
(* GlobeBeats backend: the cache refresher (backend/main.py                *)
(* update_music_data, startup_event, periodic_update), the retrieval index *)
(* (backend/services/rag_service.py) and the request handlers that read    *)
(* them, as one asyncio event loop: an action is the code between two      *)
(* await points, and a coroutine that is between two statements without an *)
(* await in between keeps the loop (HoldsLoop).                            *)
(***************************************************************************)
EXTENDS Integers, Sequences, FiniteSets, TLC

VARIABLES
    music_cache,      \* main.py music_cache: region code -> CountryMusic
    collection,       \* rag_service.collection: the documents of the index
    pc,               \* position of the startup and of the periodic coroutine
    i,                \* update_music_data: loop variable i of each invocation
    results,          \* update_music_data: the fetch tasks of the running cycle
    countries_data,   \* update_music_data: the argument of the index rebuild
    delays,           \* inter-batch sleeps taken by the running cycle
    cycle,            \* number of update_music_data invocations started
    rebuilds,         \* number of rag_service.update_music_data calls completed
    faults,           \* number of fetches that failed so far
    serving,          \* the server accepts requests (startup handlers returned)
    response,         \* the last response of a non-streaming handler
    chat_pc,          \* position of the chat request in flight
    contexts,         \* chat: the documents its search returned
    settings,         \* config.py settings
    primary_llm_service,   \* main.py primary_llm_service
    fallback_llm_service,  \* main.py fallback_llm_service
    request,          \* chat: the ChatRequest
    selected_service, \* stream_response: selected_service
    full_response,    \* stream_response: full_response
    error_str,        \* stream_response: error_str of the failed attempt
    attempts,         \* the provider handles whose chat() was called, in order
    events,           \* the events the stream has yielded, in order
    fallback_error_str,  \* stream_response: fallback_error_str
    outputs,          \* per provider call, the fragments the provider yielded
    cancelled,        \* the stream's generator was cancelled while it ran
    system_prompt     \* LLMService.chat: system_prompt

cacheVars == <<music_cache, collection>>
updVars == <<pc, i, results, countries_data, delays, cycle, rebuilds, faults>>
cfgVars == <<settings, primary_llm_service, fallback_llm_service>>
streamVars == <<request, selected_service, full_response, error_str, attempts, events,
                fallback_error_str, outputs, cancelled, system_prompt>>

vars == <<music_cache, collection, pc, i, results, countries_data, delays,
          cycle, rebuilds, faults, serving, response, chat_pc, contexts,
          settings, primary_llm_service, fallback_llm_service,
          request, selected_service, full_response, error_str, attempts, events,
          fallback_error_str, outputs, cancelled, system_prompt>>

(***************************************************************************)
(* Bounds                                                                  *)
(***************************************************************************)
NumCountries == 6
MaxCycles == 2
MaxFaults == 1
MaxChunks == 2
MaxPlaylists == 2

(***************************************************************************)
(* Program constants                                                       *)
(***************************************************************************)
batch_size == 5
n_results == 10
min_countries == 30

Min(a, b) == IF a < b THEN a ELSE b

\* data/countries.py: the registry, in registry order
Registry ==
    << [code |-> "US", name |-> "United States"],
       [code |-> "GB", name |-> "United Kingdom"],
       [code |-> "DE", name |-> "Germany"],
       [code |-> "FR", name |-> "France"],
       [code |-> "ES", name |-> "Spain"],
       [code |-> "IT", name |-> "Italy"],
       [code |-> "BR", name |-> "Brazil"],
       [code |-> "MX", name |-> "Mexico"],
       [code |-> "CA", name |-> "Canada"],
       [code |-> "AU", name |-> "Australia"],
       [code |-> "JP", name |-> "Japan"],
       [code |-> "TW", name |-> "Taiwan"],
       [code |-> "IN", name |-> "India"],
       [code |-> "SE", name |-> "Sweden"],
       [code |-> "NO", name |-> "Norway"],
       [code |-> "NL", name |-> "Netherlands"],
       [code |-> "PL", name |-> "Poland"],
       [code |-> "AR", name |-> "Argentina"],
       [code |-> "CL", name |-> "Chile"],
       [code |-> "CO", name |-> "Colombia"],
       [code |-> "TH", name |-> "Thailand"],
       [code |-> "SG", name |-> "Singapore"],
       [code |-> "MY", name |-> "Malaysia"],
       [code |-> "PH", name |-> "Philippines"],
       [code |-> "TR", name |-> "Turkey"],
       [code |-> "ZA", name |-> "South Africa"],
       [code |-> "NZ", name |-> "New Zealand"],
       [code |-> "FI", name |-> "Finland"],
       [code |-> "DK", name |-> "Denmark"],
       [code |-> "PT", name |-> "Portugal"],
       [code |-> "GR", name |-> "Greece"],
       [code |-> "IE", name |-> "Ireland"],
       [code |-> "AT", name |-> "Austria"],
       [code |-> "CH", name |-> "Switzerland"],
       [code |-> "BE", name |-> "Belgium"],
       [code |-> "CZ", name |-> "Czech Republic"],
       [code |-> "HU", name |-> "Hungary"],
       [code |-> "RO", name |-> "Romania"],
       [code |-> "ID", name |-> "Indonesia"],
       [code |-> "VN", name |-> "Vietnam"] >>

\* the head of the registry that the refresh cycles of Spec go through
COUNTRIES == SubSeq(Registry, 1, NumCountries)

Codes == {COUNTRIES[k].code : k \in 1..Len(COUNTRIES)}

Tasks == {"startup", "periodic"}

\* what the content provider does for one region fetch: "ok" a 200 response
\* with entries; "error" a provider exception, a non-200 response or a
\* malformed payload; "raise" an exception that escapes fetch_country_music
Outcomes == {"ok", "error", "raise"}

NoResponse == [endpoint |-> "none"]

(***************************************************************************)
(* ITunesService.get_country_top_tracks: every failure is caught inside    *)
(* and answered with the empty list                                        *)
(***************************************************************************)
get_country_top_tracks(outcome) ==
    IF outcome = "ok" THEN <<"track">> ELSE <<>>

(***************************************************************************)
(* fetch_country_music: builds a CountryMusic whatever the provider did    *)
(***************************************************************************)
fetch_country_music(country, outcome, now) ==
    LET tracks == get_country_top_tracks(outcome)
    IN  [country_code |-> country.code,
         country_name |-> country.name,
         tracks       |-> tracks,
         source       |-> IF tracks # <<>> THEN "itunes" ELSE "none",
         updated_at   |-> now]

\* the slice taken one short: COUNTRIES[i:i + batch_size - 1]
Batch_short(k) == SubSeq(COUNTRIES, k + 1, Min(k + batch_size - 1, Len(COUNTRIES)))

\* the slice taken from one place early: COUNTRIES[i - 1:i + batch_size]
Batch_overlap(k) ==
    SubSeq(COUNTRIES, IF k = 0 THEN 1 ELSE k, Min(k + batch_size, Len(COUNTRIES)))

\* batch = COUNTRIES[i:i + batch_size]
Batch(k) == SubSeq(COUNTRIES, k + 1, Min(k + batch_size, Len(COUNTRIES)))

BatchCodes(k) == {Batch(k)[j].code : j \in 1..Len(Batch(k))}

CountryOf(c) == CHOOSE country \in {COUNTRIES[k] : k \in 1..Len(COUNTRIES)} : country.code = c

Pending == [status |-> "pending"]
Raised == [status |-> "raised"]
Returned(outcome, value) == [status |-> "returned", outcome |-> outcome, value |-> value]

\* the tasks of a cycle that are still running
InFlight(t) == {c \in DOMAIN results[t] : results[t][c].status = "pending"}

\* the write-back that removes the entry of a region whose fetch raised
WriteResults_drop(cache, codes, res) ==
    LET written == {c \in codes : res[c].status = "returned"}
        dropped == {c \in codes : res[c].status = "raised"}
    IN  [c \in ((DOMAIN cache) \ dropped) \cup written |->
            IF c \in written THEN res[c].value ELSE cache[c]]

\* the write-back given up as soon as one result is an exception
WriteResults_skip(cache, codes, res) ==
    LET written == IF \E c \in codes : res[c].status = "raised"
                   THEN {}
                   ELSE {c \in codes : res[c].status = "returned"}
    IN  [c \in (DOMAIN cache) \cup written |->
            IF c \in written THEN res[c].value ELSE cache[c]]

(***************************************************************************)
(* for country, result in zip(batch, results): the cache after the loop    *)
(***************************************************************************)
WriteResults(cache, codes, res) ==
    LET written == {c \in codes : res[c].status = "returned"}
    IN  [c \in (DOMAIN cache) \cup written |->
            IF c \in written THEN res[c].value ELSE cache[c]]

(***************************************************************************)
(* RAGService.update_music_data                                            *)
(***************************************************************************)
Document(country, gen) ==
    [id           |-> country.country_code,
     country_name |-> country.country_name,
     source       |-> country.source,
     track_count  |-> Len(country.tracks),
     updated_at   |-> country.updated_at,
     gen          |-> gen]

Documents(data, gen) == {Document(country, gen) : country \in data}

\* the rebuild without its delete
CollectionDelete_none(coll, ids) == coll

CollectionDelete(coll, ids) == {d \in coll : d.id \notin ids}

CollectionAdd(coll, docs) == coll \cup docs

CacheValues(cache) == {cache[c] : c \in DOMAIN cache}

\* the index rebuilt from the snapshots fetched in this cycle only
RebuildInput_fresh(cache, res) ==
    {res[c].value : c \in {x \in DOMAIN res : res[x].status = "returned"}}

\* countries_data = [country.dict() for country in music_cache.values()]
RebuildInput(cache, res) == CacheValues(cache)

(***************************************************************************)
(* RAGService.search_relevant_context: the n nearest documents, or all of  *)
(* them when the index holds fewer; which ones depends on the embedding    *)
(***************************************************************************)
search_relevant_context(coll, n) ==
    {S \in SUBSET coll : Cardinality(S) = Min(n, Cardinality(coll))}

(***************************************************************************)
(* Provider handles (main.py, "Initialize LLM services")                   *)
(***************************************************************************)
None == [provider |-> "none"]

LLMService(provider, api_key) == [provider |-> provider, api_key |-> api_key]

PrimaryOf(s) ==
    IF s.llm_provider = "anthropic" /\ s.anthropic_api_key # ""
    THEN LLMService("anthropic", s.anthropic_api_key)
    ELSE IF s.llm_provider = "openai" /\ s.openai_api_key # ""
         THEN LLMService("openai", s.openai_api_key)
         ELSE None

\* the fallback built without a look at its key
FallbackOf_unkeyed(s) ==
    IF s.llm_provider = "anthropic" /\ s.anthropic_api_key # ""
    THEN IF s.llm_fallback_enabled
         THEN LLMService("openai", s.openai_api_key)
         ELSE None
    ELSE IF s.llm_provider = "openai" /\ s.openai_api_key # ""
         THEN IF s.llm_fallback_enabled
              THEN LLMService("anthropic", s.anthropic_api_key)
              ELSE None
         ELSE None

FallbackOf(s) ==
    IF s.llm_provider = "anthropic" /\ s.anthropic_api_key # ""
    THEN IF s.llm_fallback_enabled /\ s.openai_api_key # ""
         THEN LLMService("openai", s.openai_api_key)
         ELSE None
    ELSE IF s.llm_provider = "openai" /\ s.openai_api_key # ""
         THEN IF s.llm_fallback_enabled /\ s.anthropic_api_key # ""
              THEN LLMService("anthropic", s.anthropic_api_key)
              ELSE None
         ELSE None

Settings ==
    [llm_provider : {"anthropic", "openai"},
     anthropic_api_key : {"", "sk-ant"},
     openai_api_key : {"", "sk-oai"},
     llm_fallback_enabled : BOOLEAN]

\* the settings of a deployment with both providers and failover enabled
DefaultSettings ==
    [llm_provider |-> "anthropic", anthropic_api_key |-> "sk-ant",
     openai_api_key |-> "sk-oai", llm_fallback_enabled |-> TRUE]

\* ChatRequest.preferred_llm: the documented values, and one that is none of them
Preferences == {"auto", "primary", "fallback", "other"}

NoRequest == [preferred_llm |-> "none"]

(***************************************************************************)
(* Texts are sequences of pieces; a piece is a string that the code never  *)
(* looks into, except for its case                                         *)
(***************************************************************************)
LowerPiece(w) ==
    CASE w = "Overloaded" -> "overloaded"
      [] w = "RATE_LIMIT" -> "rate_limit"
      [] OTHER -> w

\* str.lower()
Lower(text) == [k \in 1..Len(text) |-> LowerPiece(text[k])]

\* marker in text
Contains(text, marker) == \E k \in 1..Len(text) : text[k] = marker

\* the texts of the exceptions a provider raises
ErrorStrs ==
    { <<"Error code: 529 - ", "overloaded", "_error">>,
      <<"Overloaded">>,
      <<"Error code: 429 - ", "rate_limit", "_error">>,
      <<"RATE_LIMIT", " exceeded">>,
      <<"Connection error.">> }

\* the text fragments a provider streams
Chunks == {"a", "b"}

\* the test for the markers on the text as raised, without lower()
Retriable_cased(err) ==
    Contains(err, "overloaded") \/ Contains(err, "rate_limit")

\* "overloaded" in error_str.lower() or "rate_limit" in error_str.lower()
Retriable(err) ==
    Contains(Lower(err), "overloaded") \/ Contains(Lower(err), "rate_limit")

\* the selection without the test that a fallback is configured
SelectService_nocheck(preferred_llm, primary, fallback) ==
    IF preferred_llm = "fallback" THEN fallback ELSE primary

\* if request.preferred_llm == "fallback" and fallback_llm_service: ... else: ...
SelectService(preferred_llm, primary, fallback) ==
    IF preferred_llm = "fallback" /\ fallback # None THEN fallback ELSE primary

\* the condition that only excludes the preference "primary" and does not
\* look at the handle that failed
MayFailOver_notprimary(preferred_llm, primary, fallback, selected) ==
    preferred_llm # "primary" /\ fallback # None

\* the condition under which the failed attempt may be retried on the fallback
MayFailOver(preferred_llm, primary, fallback, selected) ==
    preferred_llm = "auto" /\ fallback # None /\ selected = primary

Fragment(chunk) == [chunk |-> chunk, done |-> FALSE]

\* the notice sent as an ordinary fragment
Notice_fragment(s) ==
    Fragment(<<"warning ", "Switching to the other provider...">>)

\* the notice of the failover, sent with done set
Notice(s) ==
    LET primary_name == IF s.llm_provider = "anthropic"
                        THEN "Anthropic (Claude)" ELSE "OpenAI"
        fallback_name == IF s.llm_provider = "anthropic"
                         THEN "OpenAI (GPT-4)" ELSE "Anthropic (Claude)"
    IN  [chunk |-> <<"warning ", primary_name, " is overloaded. Switching to ",
                     fallback_name, "...">>,
         done |-> TRUE]

\* error_str[:150]
Truncate(text) == SubSeq(text, 1, Min(Len(text), 150))

\* the error fragment of the branch "Different error - show to user"
PrimaryError(s, err) ==
    LET provider_name == IF s.llm_provider = "anthropic"
                         THEN "Anthropic (Claude)" ELSE "OpenAI"
    IN  Fragment(<<"warning ", provider_name, " error: ">> \o Truncate(err))

\* the error fragment of the branch "Show error"
SelectedError(selected, primary, err) ==
    LET provider_name == IF selected = primary
                         THEN "Anthropic (Claude)" ELSE "OpenAI (GPT-4)"
    IN  Fragment(<<"warning ", provider_name, " error: ">> \o Truncate(err))

BothUnavailable ==
    Fragment(<<"warning ", "Both AI providers are unavailable. Please try again in a moment.">>)

Terminal(full, ctx) ==
    [chunk |-> <<>>, done |-> TRUE, full_response |-> full, contexts |-> ctx]

(***************************************************************************)
(* LLMService.build_prompt: the part of the system prompt that lists the   *)
(* caller's playlists. A playlist of the request is a dict: has holds the  *)
(* keys the caller supplied, and a key that is not supplied has no value.  *)
(***************************************************************************)
NoPrompt == [heading |-> "none", lines |-> <<>>]

\* playlist.get('name', 'Unnamed')
PlaylistName(playlist) ==
    IF "name" \in playlist.has THEN playlist.name ELSE "Unnamed"

\* len(playlist.get('tracks', []))
TrackCount(playlist) ==
    IF "tracks" \in playlist.has THEN Len(playlist.tracks) ELSE 0

\* playlists_text, one line per playlist
build_prompt(playlists) ==
    IF Len(playlists) > 0
    THEN [heading |-> "USER'S PLAYLISTS (Already Created):",
          lines |-> [k \in 1..Len(playlists) |->
                        [name |-> PlaylistName(playlists[k]),
                         track_count |-> TrackCount(playlists[k])]]]
    ELSE [heading |-> "USER'S PLAYLISTS: None created yet.", lines |-> <<>>]

NotConfigured ==
    [endpoint |-> "/chat",
     error |-> "AI service not configured. Please add OpenAI or Anthropic API key to .env file."]

(***************************************************************************)
(* The event loop: a coroutine at one of these positions is between two    *)
(* statements with no await in between, and nothing else runs              *)
(***************************************************************************)
\* the index rebuild with an await between its delete and its add
HoldsLoop_await(p) == p \in {"batch", "rebuild", "return"}

HoldsLoop(p) == p \in {"batch", "rebuild", "rag_add", "return"}

LoopFree == \A t \in Tasks : ~HoldsLoop(pc[t])

CanRun(t) == \A u \in Tasks \ {t} : ~HoldsLoop(pc[u])

InCycle(p) == p \in {"batch", "gather", "delay", "rebuild", "rag_add"}

Idle ==
    /\ response = NoResponse
    /\ chat_pc = "idle"
    /\ contexts = {}
    /\ request = NoRequest
    /\ selected_service = None
    /\ full_response = <<>>
    /\ error_str = <<>>
    /\ attempts = <<>>
    /\ events = <<>>
    /\ fallback_error_str = <<>>
    /\ outputs = <<>>
    /\ cancelled = FALSE
    /\ system_prompt = NoPrompt

Configured(s) ==
    /\ settings = s
    /\ primary_llm_service = PrimaryOf(s)
    /\ fallback_llm_service = FallbackOf(s)

\* the process after the module is loaded, before the startup event, but
\* for the provider handles
Loaded ==
    /\ music_cache = << >>
    /\ collection = {}
    /\ pc = [t \in Tasks |-> IF t = "startup" THEN "startup" ELSE "not_created"]
    /\ i = [t \in Tasks |-> 0]
    /\ results = [t \in Tasks |-> << >>]
    /\ countries_data = [t \in Tasks |-> {}]
    /\ delays = [t \in Tasks |-> 0]
    /\ cycle = 0
    /\ rebuilds = 0
    /\ faults = 0
    /\ serving = FALSE
    /\ Idle

\* the process after the module is loaded, before the startup event
Init == Loaded /\ Configured(DefaultSettings)

(***************************************************************************)
(* update_music_data, entered by task t: the head of the batch loop        *)
(***************************************************************************)
EnterUpdate(t) ==
    /\ cycle < MaxCycles
    /\ cycle' = cycle + 1
    /\ pc' = [pc EXCEPT ![t] = "batch"]
    /\ i' = [i EXCEPT ![t] = 0]
    /\ results' = [results EXCEPT ![t] = << >>]
    /\ delays' = [delays EXCEPT ![t] = 0]

\* startup_event with the periodic task created before the first refresh
StartupEvent_early ==
    /\ pc["startup"] = "startup"
    /\ cycle < MaxCycles
    /\ cycle' = cycle + 1
    /\ pc' = [pc EXCEPT !["startup"] = "batch", !["periodic"] = "sleep"]
    /\ i' = [i EXCEPT !["startup"] = 0]
    /\ results' = [results EXCEPT !["startup"] = << >>]
    /\ delays' = [delays EXCEPT !["startup"] = 0]
    /\ UNCHANGED <<music_cache, collection, countries_data, rebuilds, faults,
                   serving, response, chat_pc, contexts, cfgVars, streamVars>>

\* startup_event that leaves the first refresh to the periodic task
StartupEvent_skip ==
    /\ pc["startup"] = "startup"
    /\ pc' = [pc EXCEPT !["startup"] = "return"]
    /\ UNCHANGED <<music_cache, collection, i, results, countries_data, delays,
                   cycle, rebuilds, faults, serving, response, chat_pc, contexts,
                   cfgVars, streamVars>>

\* startup_event: await update_music_data()
StartupEvent ==
    /\ pc["startup"] = "startup"
    /\ EnterUpdate("startup")
    /\ UNCHANGED <<music_cache, collection, countries_data, rebuilds, faults,
                   serving, response, chat_pc, contexts, cfgVars, streamVars>>

\* periodic_update: the sleep of update_interval is over
PeriodicWake ==
    /\ pc["periodic"] = "sleep"
    /\ CanRun("periodic")
    /\ EnterUpdate("periodic")
    /\ UNCHANGED <<music_cache, collection, countries_data, rebuilds, faults,
                   serving, response, chat_pc, contexts, cfgVars, streamVars>>

\* tasks = [fetch_country_music(country) for country in batch]; gather(...)
StartBatch(t) ==
    /\ pc[t] = "batch"
    /\ CanRun(t)
    /\ results' = [results EXCEPT ![t] =
            [c \in (DOMAIN results[t]) \cup BatchCodes(i[t]) |->
                IF c \in BatchCodes(i[t]) THEN Pending ELSE results[t][c]]]
    /\ pc' = [pc EXCEPT ![t] = "gather"]
    /\ UNCHANGED <<music_cache, collection, i, countries_data, delays, cycle,
                   rebuilds, faults, serving, response, chat_pc, contexts, cfgVars, streamVars>>

\* one fetch task of the batch settles
FetchSettle(t, c, outcome) ==
    /\ pc[t] = "gather"
    /\ LoopFree
    /\ c \in InFlight(t)
    /\ outcome # "ok" => faults < MaxFaults
    /\ faults' = IF outcome = "ok" THEN faults ELSE faults + 1
    /\ results' = [results EXCEPT ![t][c] =
            IF outcome = "raise"
            THEN Raised
            ELSE Returned(outcome, fetch_country_music(CountryOf(c), outcome, cycle))]
    /\ UNCHANGED <<music_cache, collection, pc, i, countries_data, delays, cycle,
                   rebuilds, serving, response, chat_pc, contexts, cfgVars, streamVars>>

\* the batch awaited until its first task settles only
WriteBatch_first(t) ==
    /\ pc[t] = "gather"
    /\ LoopFree
    /\ InFlight(t) # BatchCodes(i[t])
    /\ music_cache' = WriteResults(music_cache, BatchCodes(i[t]), results[t])
    /\ pc' = [pc EXCEPT ![t] =
            IF i[t] + batch_size < Len(COUNTRIES) THEN "delay" ELSE "rebuild"]
    /\ UNCHANGED <<collection, i, results, countries_data, delays, cycle,
                   rebuilds, faults, serving, response, chat_pc, contexts, cfgVars, streamVars>>

\* gather returns once every task settled; the results are written
WriteBatch(t) ==
    /\ pc[t] = "gather"
    /\ LoopFree
    /\ InFlight(t) = {}
    /\ music_cache' = WriteResults(music_cache, BatchCodes(i[t]), results[t])
    /\ pc' = [pc EXCEPT ![t] =
            IF i[t] + batch_size < Len(COUNTRIES) THEN "delay" ELSE "rebuild"]
    /\ UNCHANGED <<collection, i, results, countries_data, delays, cycle,
                   rebuilds, faults, serving, response, chat_pc, contexts, cfgVars, streamVars>>

\* await asyncio.sleep(1) is over: the next value of i
DelayElapsed(t) ==
    /\ pc[t] = "delay"
    /\ LoopFree
    /\ delays' = [delays EXCEPT ![t] = delays[t] + 1]
    /\ i' = [i EXCEPT ![t] = i[t] + batch_size]
    /\ pc' = [pc EXCEPT ![t] = "batch"]
    /\ UNCHANGED <<music_cache, collection, results, countries_data, cycle,
                   rebuilds, faults, serving, response, chat_pc, contexts, cfgVars, streamVars>>

\* rag_service.update_music_data(countries_data): up to collection.delete
RagDelete(t) ==
    /\ pc[t] = "rebuild"
    /\ CanRun(t)
    /\ countries_data' = [countries_data EXCEPT ![t] = RebuildInput(music_cache, results[t])]
    /\ LET ids == {country.country_code : country \in RebuildInput(music_cache, results[t])}
       IN  collection' = IF ids # {} THEN CollectionDelete(collection, ids)
                         ELSE collection
    /\ pc' = [pc EXCEPT ![t] = "rag_add"]
    /\ UNCHANGED <<music_cache, i, results, delays, cycle, rebuilds, faults,
                   serving, response, chat_pc, contexts, cfgVars, streamVars>>

\* rag_service.update_music_data(countries_data): collection.add
RagAdd(t) ==
    /\ pc[t] = "rag_add"
    /\ CanRun(t)
    /\ collection' = IF countries_data[t] # {}
                     THEN CollectionAdd(collection, Documents(countries_data[t], rebuilds + 1))
                     ELSE collection
    /\ rebuilds' = rebuilds + 1
    /\ pc' = [pc EXCEPT ![t] = "return"]
    /\ UNCHANGED <<music_cache, i, results, countries_data, delays, cycle,
                   faults, serving, response, chat_pc, contexts, cfgVars, streamVars>>

\* startup_event: asyncio.create_task(periodic_update()), and the server starts
StartupReturn ==
    /\ pc["startup"] = "return"
    /\ pc' = [pc EXCEPT !["startup"] = "done", !["periodic"] = "sleep"]
    /\ serving' = TRUE
    /\ UNCHANGED <<music_cache, collection, i, results, countries_data, delays,
                   cycle, rebuilds, faults, response, chat_pc, contexts, cfgVars, streamVars>>

\* periodic_update: back to the head of while True
PeriodicLoop ==
    /\ pc["periodic"] = "return"
    /\ pc' = [pc EXCEPT !["periodic"] = "sleep"]
    /\ UNCHANGED <<music_cache, collection, i, results, countries_data, delays,
                   cycle, rebuilds, faults, serving, response, chat_pc, contexts, cfgVars, streamVars>>

(***************************************************************************)
(* Request handlers                                                        *)
(***************************************************************************)
\* GET /
Root ==
    /\ serving
    /\ LoopFree
    /\ chat_pc = "idle"
    /\ response' = [endpoint |-> "/",
                    countries |-> Cardinality(DOMAIN music_cache),
                    total_countries |-> Cardinality(collection)]
    /\ UNCHANGED <<music_cache, collection, pc, i, results, countries_data, delays,
                   cycle, rebuilds, faults, serving, chat_pc, contexts, cfgVars, streamVars>>

\* GET /countries
GetAllCountries ==
    /\ serving
    /\ LoopFree
    /\ chat_pc = "idle"
    /\ response' = [endpoint |-> "/countries", body |-> CacheValues(music_cache)]
    /\ UNCHANGED <<music_cache, collection, pc, i, results, countries_data, delays,
                   cycle, rebuilds, faults, serving, chat_pc, contexts, cfgVars, streamVars>>

\* the handler whose search takes the documents it returns out of the index
Chat_consume(preferred_llm) ==
    /\ serving
    /\ LoopFree
    /\ chat_pc \in {"idle", "done"}
    /\ IF primary_llm_service = None
       THEN /\ response' = NotConfigured
            /\ UNCHANGED collection
            /\ chat_pc' = "idle"
            /\ contexts' = {}
            /\ request' = NoRequest
       ELSE /\ \E found \in search_relevant_context(collection, n_results) :
                    contexts' = found /\ collection' = collection \ found
            /\ response' = NoResponse
            /\ chat_pc' = "select"
            /\ request' = [preferred_llm |-> preferred_llm]
    /\ selected_service' = None
    /\ full_response' = <<>>
    /\ error_str' = <<>>
    /\ attempts' = <<>>
    /\ events' = <<>>
    /\ fallback_error_str' = <<>>
    /\ outputs' = <<>>
    /\ cancelled' = FALSE
    /\ system_prompt' = NoPrompt
    /\ UNCHANGED <<music_cache, pc, i, results, countries_data, delays,
                   cycle, rebuilds, faults, serving, cfgVars>>

\* POST /chat: the handler, up to the return of the event stream
Chat(preferred_llm) ==
    /\ serving
    /\ LoopFree
    /\ chat_pc \in {"idle", "done"}
    /\ IF primary_llm_service = None
       THEN /\ response' = NotConfigured
            /\ chat_pc' = "idle"
            /\ contexts' = {}
            /\ request' = NoRequest
       ELSE /\ \E found \in search_relevant_context(collection, n_results) :
                    contexts' = found
            /\ response' = NoResponse
            /\ chat_pc' = "select"
            /\ request' = [preferred_llm |-> preferred_llm]
    /\ selected_service' = None
    /\ full_response' = <<>>
    /\ error_str' = <<>>
    /\ attempts' = <<>>
    /\ events' = <<>>
    /\ fallback_error_str' = <<>>
    /\ outputs' = <<>>
    /\ cancelled' = FALSE
    /\ system_prompt' = NoPrompt
    /\ UNCHANGED <<music_cache, collection, pc, i, results, countries_data, delays,
                   cycle, rebuilds, faults, serving, cfgVars>>

\* the client's leaving handled by the except clauses as a provider's error
ClientDisconnect_caught ==
    /\ chat_pc \in {"try_selected", "try_fallback"}
    /\ LoopFree
    /\ cancelled' = TRUE
    /\ events' = Append(events,
                    IF chat_pc = "try_selected"
                    THEN SelectedError(selected_service, primary_llm_service,
                                       <<"CancelledError">>)
                    ELSE BothUnavailable)
    /\ chat_pc' = "final"
    /\ UNCHANGED <<music_cache, collection, pc, i, results, countries_data, delays,
                   cycle, rebuilds, faults, serving, response, contexts, cfgVars,
                   request, selected_service, full_response, error_str,
                   fallback_error_str, attempts, outputs, system_prompt>>

\* the client closes the event stream: the transport cancels the task that
\* sends it. A generator that has started is cancelled where it is suspended,
\* at a yield or at the await of the provider's next fragment, which is no
\* Exception to its except clauses; one that has not started never runs and
\* leaves nothing behind. The events sent and the provider calls made stay as
\* they are, the generator's locals are gone.
ClientDisconnect ==
    /\ chat_pc \notin {"idle", "done"}
    /\ LoopFree
    /\ cancelled' = (chat_pc # "select")
    /\ system_prompt' = NoPrompt
    /\ chat_pc' = "idle"
    /\ contexts' = {}
    /\ request' = IF chat_pc = "select" THEN NoRequest ELSE request
    /\ selected_service' = None
    /\ full_response' = <<>>
    /\ error_str' = <<>>
    /\ fallback_error_str' = <<>>
    /\ UNCHANGED <<music_cache, collection, pc, i, results, countries_data, delays,
                   cycle, rebuilds, faults, serving, response, cfgVars,
                   attempts, events, outputs>>

(***************************************************************************)
(* stream_response                                                         *)
(***************************************************************************)
frameVars == <<music_cache, collection, pc, i, results, countries_data, delays,
               cycle, rebuilds, faults, serving, response, contexts, cfgVars, request,
               cancelled, system_prompt>>

\* full_response = ""; the selection; selected_service.chat(...) is called
StreamStart ==
    /\ chat_pc = "select"
    /\ LoopFree
    /\ LET selected == SelectService(request.preferred_llm,
                                     primary_llm_service, fallback_llm_service)
       IN  /\ selected_service' = selected
           /\ attempts' = <<selected>>
    /\ outputs' = << <<>> >>
    /\ full_response' = <<>>
    /\ chat_pc' = "try_selected"
    /\ UNCHANGED <<frameVars, error_str, events, fallback_error_str>>

\* a fragment that is kept back for the terminal record, not forwarded
SelectedChunk_buffered(chunk) ==
    /\ chat_pc = "try_selected"
    /\ LoopFree
    /\ Len(outputs[1]) < MaxChunks
    /\ outputs' = [outputs EXCEPT ![1] = Append(@, chunk)]
    /\ full_response' = Append(full_response, chunk)
    /\ UNCHANGED <<frameVars, chat_pc, selected_service, error_str, attempts,
                   events, fallback_error_str>>

\* async for chunk in selected_service.chat(...): one fragment
SelectedChunk(chunk) ==
    /\ chat_pc = "try_selected"
    /\ LoopFree
    /\ Len(outputs[1]) < MaxChunks
    /\ outputs' = [outputs EXCEPT ![1] = Append(@, chunk)]
    /\ full_response' = Append(full_response, chunk)
    /\ events' = Append(events, Fragment(<<chunk>>))
    /\ UNCHANGED <<frameVars, chat_pc, selected_service, error_str, attempts,
                   fallback_error_str>>

\* the stream of the selected provider ends
SelectedEnd ==
    /\ chat_pc = "try_selected"
    /\ LoopFree
    /\ chat_pc' = "final"
    /\ UNCHANGED <<frameVars, selected_service, full_response, error_str, attempts, events,
                   fallback_error_str, outputs>>

\* the failover that keeps what the primary has streamed in full_response
SelectedRaise_keep(err) ==
    /\ chat_pc = "try_selected"
    /\ LoopFree
    /\ error_str' = err
    /\ IF MayFailOver(request.preferred_llm, primary_llm_service,
                      fallback_llm_service, selected_service)
       THEN IF Retriable(err)
            THEN /\ events' = Append(events, Notice(settings))
                 /\ attempts' = Append(attempts, fallback_llm_service)
                 /\ outputs' = Append(outputs, <<>>)
                 /\ chat_pc' = "try_fallback"
                 /\ UNCHANGED full_response
            ELSE /\ events' = Append(events, PrimaryError(settings, err))
                 /\ chat_pc' = "final"
                 /\ UNCHANGED <<full_response, attempts, outputs>>
       ELSE /\ events' = Append(events,
                    SelectedError(selected_service, primary_llm_service, err))
            /\ chat_pc' = "final"
            /\ UNCHANGED <<full_response, attempts, outputs>>
    /\ UNCHANGED <<frameVars, selected_service, fallback_error_str>>

\* except Exception as e: up to the call of the fallback or to the error fragment
SelectedRaise(err) ==
    /\ chat_pc = "try_selected"
    /\ LoopFree
    /\ error_str' = err
    /\ IF MayFailOver(request.preferred_llm, primary_llm_service,
                      fallback_llm_service, selected_service)
       THEN IF Retriable(err)
            THEN /\ events' = Append(events, Notice(settings))
                 /\ full_response' = <<>>
                 /\ attempts' = Append(attempts, fallback_llm_service)
                 /\ outputs' = Append(outputs, <<>>)
                 /\ chat_pc' = "try_fallback"
            ELSE /\ events' = Append(events, PrimaryError(settings, err))
                 /\ chat_pc' = "final"
                 /\ UNCHANGED <<full_response, attempts, outputs>>
       ELSE /\ events' = Append(events,
                    SelectedError(selected_service, primary_llm_service, err))
            /\ chat_pc' = "final"
            /\ UNCHANGED <<full_response, attempts, outputs>>
    /\ UNCHANGED <<frameVars, selected_service, fallback_error_str>>

\* a fragment of the fallback that is forwarded and not added to full_response
FallbackChunk_unsaved(chunk) ==
    /\ chat_pc = "try_fallback"
    /\ LoopFree
    /\ Len(outputs[2]) < MaxChunks
    /\ outputs' = [outputs EXCEPT ![2] = Append(@, chunk)]
    /\ events' = Append(events, Fragment(<<chunk>>))
    /\ UNCHANGED <<frameVars, chat_pc, selected_service, full_response, error_str,
                   attempts, fallback_error_str>>

\* async for chunk in fallback_llm_service.chat(...): one fragment
FallbackChunk(chunk) ==
    /\ chat_pc = "try_fallback"
    /\ LoopFree
    /\ Len(outputs[2]) < MaxChunks
    /\ outputs' = [outputs EXCEPT ![2] = Append(@, chunk)]
    /\ full_response' = Append(full_response, chunk)
    /\ events' = Append(events, Fragment(<<chunk>>))
    /\ UNCHANGED <<frameVars, chat_pc, selected_service, error_str, attempts,
                   fallback_error_str>>

\* the stream of the fallback ends
FallbackEnd ==
    /\ chat_pc = "try_fallback"
    /\ LoopFree
    /\ chat_pc' = "final"
    /\ UNCHANGED <<frameVars, selected_service, full_response, error_str, attempts, events,
                   fallback_error_str, outputs>>

\* a failure of the fallback that is passed over in silence
FallbackRaise_silent(err) ==
    /\ chat_pc = "try_fallback"
    /\ LoopFree
    /\ fallback_error_str' = err
    /\ chat_pc' = "final"
    /\ UNCHANGED <<frameVars, selected_service, full_response, error_str, attempts,
                   events, outputs>>

\* a failure of the fallback that ends the stream at once
FallbackRaise_return(err) ==
    /\ chat_pc = "try_fallback"
    /\ LoopFree
    /\ fallback_error_str' = err
    /\ events' = Append(events, BothUnavailable)
    /\ chat_pc' = "done"
    /\ UNCHANGED <<frameVars, selected_service, full_response, error_str, attempts,
                   outputs>>

\* a failure of the fallback answered by another try of the primary
FallbackRaise_retry(err) ==
    /\ chat_pc = "try_fallback"
    /\ LoopFree
    /\ fallback_error_str' = err
    /\ attempts' = Append(attempts, primary_llm_service)
    /\ outputs' = Append(outputs, <<>>)
    /\ chat_pc' = "try_selected"
    /\ UNCHANGED <<frameVars, selected_service, full_response, error_str, events>>

\* except Exception as fallback_error
FallbackRaise(err) ==
    /\ chat_pc = "try_fallback"
    /\ LoopFree
    /\ fallback_error_str' = err
    /\ events' = Append(events, BothUnavailable)
    /\ chat_pc' = "final"
    /\ UNCHANGED <<frameVars, selected_service, full_response, error_str, attempts,
                   outputs>>

\* "Send final message with contexts"
StreamFinal ==
    /\ chat_pc = "final"
    /\ LoopFree
    /\ events' = Append(events, Terminal(full_response, contexts))
    /\ chat_pc' = "done"
    /\ UNCHANGED <<frameVars, selected_service, full_response, error_str, attempts,
                   fallback_error_str, outputs>>

Stream ==
    \/ StreamStart
    \/ \E chunk \in Chunks : SelectedChunk(chunk)
    \/ SelectedEnd
    \/ \E err \in ErrorStrs : SelectedRaise(err)
    \/ \E chunk \in Chunks : FallbackChunk(chunk)
    \/ FallbackEnd
    \/ \E err \in ErrorStrs : FallbackRaise(err)
    \/ StreamFinal

Refresh ==
    \/ StartupEvent
    \/ PeriodicWake
    \/ \E t \in Tasks : StartBatch(t)
    \/ \E t \in Tasks, c \in Codes, outcome \in Outcomes : FetchSettle(t, c, outcome)
    \/ \E t \in Tasks : WriteBatch(t)
    \/ \E t \in Tasks : DelayElapsed(t)
    \/ \E t \in Tasks : RagDelete(t)
    \/ \E t \in Tasks : RagAdd(t)
    \/ StartupReturn
    \/ PeriodicLoop

Next ==
    \/ Refresh
    \/ Root
    \/ GetAllCountries
    \/ Chat("auto")
    \/ ClientDisconnect

Spec == Init /\ [][Next]_vars

(***************************************************************************)
(* The chat endpoint of a server that has started: the state after a       *)
(* startup refresh in which every fetch succeeded, under any settings      *)
(***************************************************************************)
StartupResults ==
    [c \in Codes |-> Returned("ok", fetch_country_music(CountryOf(c), "ok", 1))]

ChatInit ==
    /\ music_cache = WriteResults(<< >>, Codes, StartupResults)
    /\ collection = Documents(CacheValues(WriteResults(<< >>, Codes, StartupResults)), 1)
    /\ pc = [t \in Tasks |-> IF t = "startup" THEN "done" ELSE "sleep"]
    /\ i = [t \in Tasks |-> 0]
    /\ results = [t \in Tasks |-> IF t = "startup" THEN StartupResults ELSE << >>]
    /\ countries_data = [t \in Tasks |-> {}]
    /\ delays = [t \in Tasks |-> 0]
    /\ cycle = 1
    /\ rebuilds = 1
    /\ faults = 0
    /\ serving = TRUE
    /\ Idle
    /\ \E s \in Settings : Configured(s)

ChatNext ==
    \/ \E preferred_llm \in Preferences : Chat(preferred_llm)
    \/ Stream
    \/ ClientDisconnect

ChatSpec == ChatInit /\ [][ChatNext]_vars

\* the event loop resumes the generator of a stream whenever it can go on,
\* and a provider's stream is finite
FairChatSpec == ChatSpec /\ WF_vars(Stream)

(***************************************************************************)
(* The refresh cycles over the whole registry. A batch is one step, from   *)
(* the creation of its fetch tasks to the write-back of their results: the *)
(* provider answers the fetches of a cycle alike (it is up, or it is down),*)
(* and the first fetch of a batch may end in an exception of its own. The  *)
(* index rebuild is one step, as it has no await. A chat request asks one  *)
(* fixed query.                                                            *)
(***************************************************************************)
RegistryCodes == {Registry[k].code : k \in 1..Len(Registry)}

RegistryCountry(c) ==
    CHOOSE country \in {Registry[k] : k \in 1..Len(Registry)} : country.code = c

\* the slice that holds its first region only: COUNTRIES[i:i + 1]
RegistryBatch_one(k) == SubSeq(Registry, k + 1, k + 1)

\* batch = COUNTRIES[i:i + batch_size]
RegistryBatch(k) == SubSeq(Registry, k + 1, Min(k + batch_size, Len(Registry)))

\* the fetch that lets a failure of the provider escape as an exception
Settle_escapes(country, outcome, now) ==
    IF outcome = "ok"
    THEN Returned(outcome, fetch_country_music(country, outcome, now))
    ELSE Raised

\* what gather holds for the fetch task of one region
Settle(country, outcome, now) ==
    IF outcome = "raise"
    THEN Raised
    ELSE Returned(outcome, fetch_country_music(country, outcome, now))

\* the outcomes of the fetches that have returned in the running cycle
CycleOutcomes ==
    {IF e.source = "itunes" THEN "ok" ELSE "error" :
        e \in {x \in CacheValues(music_cache) : x.updated_at = cycle}}

\* one turn of the batch loop up to its write-back
GatherBatch(t, outcome, raises) ==
    /\ pc[t] = "batch"
    /\ CanRun(t)
    /\ CycleOutcomes \subseteq {outcome}
    /\ LET batch == RegistryBatch(i[t])
           codes == {batch[j].code : j \in 1..Len(batch)}
           raised == IF raises THEN {batch[1].code} ELSE {}
           res == [c \in codes |->
                     Settle(RegistryCountry(c),
                            IF c \in raised THEN "raise" ELSE outcome, cycle)]
       IN  /\ faults + Cardinality(raised) <= MaxFaults
           /\ faults' = faults + Cardinality(raised)
           /\ music_cache' = WriteResults(music_cache, codes, res)
    /\ pc' = [pc EXCEPT ![t] =
            IF i[t] + batch_size < Len(Registry) THEN "delay" ELSE "rebuild"]
    /\ UNCHANGED <<collection, i, results, countries_data, delays, cycle,
                   rebuilds, serving, response, chat_pc, contexts, cfgVars, streamVars>>

\* countries_data = ...; rag_service.update_music_data(countries_data)
UpdateRag(t) ==
    /\ pc[t] = "rebuild"
    /\ CanRun(t)
    /\ LET data == RebuildInput(music_cache, results[t])
           ids == {country.country_code : country \in data}
       IN  collection' =
              IF data # {}
              THEN CollectionAdd(CollectionDelete(collection, ids),
                                 Documents(data, rebuilds + 1))
              ELSE collection
    /\ rebuilds' = rebuilds + 1
    /\ pc' = [pc EXCEPT ![t] = "return"]
    /\ UNCHANGED <<music_cache, i, results, countries_data, delays, cycle,
                   faults, serving, response, chat_pc, contexts, cfgVars, streamVars>>

\* the documents a search returns for one fixed query: n of them, or all
\* when the index holds fewer
RECURSIVE Nearest(_, _)
Nearest(coll, n) ==
    IF n = 0 \/ coll = {}
    THEN {}
    ELSE LET d == CHOOSE x \in coll : TRUE
         IN  {d} \cup Nearest(coll \ {d}, n - 1)

\* POST /chat with the fixed query, up to the return of the event stream
ChatQuery(preferred_llm) ==
    /\ serving
    /\ LoopFree
    /\ chat_pc \in {"idle", "done"}
    /\ primary_llm_service # None
    /\ contexts' = Nearest(collection, n_results)
    /\ response' = NoResponse
    /\ chat_pc' = "select"
    /\ request' = [preferred_llm |-> preferred_llm]
    /\ selected_service' = None
    /\ full_response' = <<>>
    /\ error_str' = <<>>
    /\ attempts' = <<>>
    /\ events' = <<>>
    /\ fallback_error_str' = <<>>
    /\ outputs' = <<>>
    /\ cancelled' = FALSE
    /\ system_prompt' = NoPrompt
    /\ UNCHANGED <<music_cache, collection, pc, i, results, countries_data, delays,
                   cycle, rebuilds, faults, serving, cfgVars>>

RegistryNext ==
    \/ StartupEvent
    \/ PeriodicWake
    \/ \E t \in Tasks, outcome \in {"ok", "error"}, raises \in BOOLEAN :
          GatherBatch(t, outcome, raises)
    \/ \E t \in Tasks : DelayElapsed(t)
    \/ \E t \in Tasks : UpdateRag(t)
    \/ StartupReturn
    \/ PeriodicLoop
    \/ Root
    \/ GetAllCountries
    \/ ChatQuery("auto")
    \/ ClientDisconnect

RegistrySpec == Init /\ [][RegistryNext]_vars

(***************************************************************************)
(* Chat requests that carry playlists, up to the system prompt that the    *)
(* selected provider service builds from them                              *)
(***************************************************************************)
\* the dicts a caller may send as one playlist: any of the keys name,
\* item_count and tracks, supplied or not
PlaylistDicts ==
    {[has |-> has,
      name |-> IF "name" \in has THEN "Shakira" ELSE "",
      item_count |-> IF "item_count" \in has THEN 20 ELSE 0,
      tracks |-> IF "tracks" \in has THEN <<"Anti-Hero">> ELSE <<>>] :
        has \in SUBSET {"name", "item_count", "tracks"}}

\* ChatRequest.playlists
PlaylistLists == UNION {[1..n -> PlaylistDicts] : n \in 0..MaxPlaylists}

\* POST /chat with playlists, up to the return of the event stream
ChatWithPlaylists(playlists) ==
    /\ serving
    /\ LoopFree
    /\ chat_pc \in {"idle", "done"}
    /\ primary_llm_service # None
    /\ contexts' = Nearest(collection, n_results)
    /\ response' = NoResponse
    /\ chat_pc' = "select"
    /\ request' = [preferred_llm |-> "auto", playlists |-> playlists]
    /\ selected_service' = None
    /\ full_response' = <<>>
    /\ error_str' = <<>>
    /\ attempts' = <<>>
    /\ events' = <<>>
    /\ fallback_error_str' = <<>>
    /\ outputs' = <<>>
    /\ cancelled' = FALSE
    /\ system_prompt' = NoPrompt
    /\ UNCHANGED <<music_cache, collection, pc, i, results, countries_data, delays,
                   cycle, rebuilds, faults, serving, cfgVars>>

\* LLMService.chat: system_prompt = self.build_prompt(query, contexts, playlists or [])
BuildPrompt ==
    /\ chat_pc = "try_selected"
    /\ LoopFree
    /\ system_prompt = NoPrompt
    /\ system_prompt' = build_prompt(request.playlists)
    /\ UNCHANGED <<music_cache, collection, pc, i, results, countries_data, delays,
                   cycle, rebuilds, faults, serving, response, chat_pc, contexts,
                   cfgVars, request, selected_service, full_response, error_str,
                   attempts, events, fallback_error_str, outputs, cancelled>>

PromptInit == ChatInit /\ settings = DefaultSettings

PromptNext ==
    \/ \E playlists \in PlaylistLists : ChatWithPlaylists(playlists)
    \/ StreamStart
    \/ BuildPrompt
    \/ ClientDisconnect

PromptSpec == PromptInit /\ [][PromptNext]_vars

(***************************************************************************)
(* The refresher with an index rebuild that may fail: collection.add       *)
(* raises. Nothing between the call and the task catches the exception:    *)
(* it leaves rag_service.update_music_data, update_music_data and then     *)
(* periodic_update, whose task ends, or startup_event, whose failure stops *)
(* the start of the server.                                                *)
(***************************************************************************)
\* self.collection.add(documents=documents, metadatas=metadatas, ids=ids) raises
RagAddRaise(t) ==
    /\ pc[t] = "rag_add"
    /\ CanRun(t)
    /\ countries_data[t] # {}
    /\ pc' = [pc EXCEPT ![t] = IF t = "periodic" THEN "ended" ELSE "failed"]
    /\ UNCHANGED <<music_cache, collection, i, results, countries_data, delays, cycle,
                   rebuilds, faults, serving, response, chat_pc, contexts, cfgVars,
                   streamVars>>

RebuildNext ==
    \/ Refresh
    \/ \E t \in Tasks : RagAddRaise(t)

\* the event loop runs every task that is ready to run
FairRefreshSpec == Init /\ [][RebuildNext]_vars /\ WF_vars(Refresh)

(***************************************************************************)
(* The process under any settings: the handles as the module builds them,  *)
(* then refresh cycles whose fetches succeed, and chat requests of every   *)
(* preference                                                              *)
(***************************************************************************)
ConfigInit == Loaded /\ \E s \in Settings : Configured(s)

ConfigNext ==
    \/ StartupEvent
    \/ PeriodicWake
    \/ \E t \in Tasks : StartBatch(t)
    \/ \E t \in Tasks, c \in Codes : FetchSettle(t, c, "ok")
    \/ \E t \in Tasks : WriteBatch(t)
    \/ \E t \in Tasks : DelayElapsed(t)
    \/ \E t \in Tasks : RagDelete(t)
    \/ \E t \in Tasks : RagAdd(t)
    \/ StartupReturn
    \/ PeriodicLoop
    \/ \E preferred_llm \in Preferences : Chat(preferred_llm)
    \/ StreamStart
    \/ ClientDisconnect

ConfigSpec == ConfigInit /\ [][ConfigNext]_vars

(***************************************************************************)
(* Properties                                                              *)
(***************************************************************************)
Settled(r) == r.status \in {"returned", "raised"}

\* the fetch failed: the provider failed, or the task raised
Failed(r) == r.status = "raised" \/ (r.status = "returned" /\ r.outcome = "error")

\* task t writes the results of its batch in this step
WritesBatch(t) == pc[t] = "gather" /\ pc'[t] # "gather"

\* C1: a region whose fetch failed in a batch has, after the results of the
\* batch are written, the cache entry it had before (the same items, source
\* label and timestamp), and none if it had none.
C1_FailedFetchKeepsEntry ==
    [][\A t \in Tasks : \A c \in Codes :
          (WritesBatch(t) /\ c \in BatchCodes(i[t]) /\ Failed(results[t][c]))
          => IF c \in DOMAIN music_cache
             THEN c \in DOMAIN music_cache' /\ music_cache'[c] = music_cache[c]
             ELSE c \notin DOMAIN music_cache']_vars

\* the batch of task t has been gathered and written, and nothing ran since
BatchWritten(t) == pc[t] \in {"delay", "rebuild"}

\* C2: when a batch has been gathered, every fetch of it has run to completion
\* whatever the other fetches of the batch did, and the cache entry of every
\* region whose fetch returned is the snapshot that fetch returned.
C2_SiblingsUnaffected ==
    \A t \in Tasks : BatchWritten(t) =>
        \A c \in BatchCodes(i[t]) :
            /\ c \in DOMAIN results[t]
            /\ Settled(results[t][c])
            /\ results[t][c].status = "returned"
               => /\ c \in DOMAIN music_cache
                  /\ music_cache[c] = results[t][c].value
                  /\ music_cache[c].updated_at = cycle

\* a batch of five in the second cycle in which exactly one fetch raised and
\* the four others replaced their entries
C2_Witness ==
    /\ pc["periodic"] = "delay"
    /\ cycle = 2
    /\ Cardinality({c \in BatchCodes(0) : results["periodic"][c].status = "raised"}) = 1
    /\ Cardinality({c \in BatchCodes(0) :
            /\ results["periodic"][c].status = "returned"
            /\ music_cache[c].updated_at = 2}) = Len(Batch(0)) - 1

\* C3: at most one refresh cycle is in progress at any time, and the periodic
\* task waits for its next refresh only when every cycle that was started has
\* completed, its index rebuild included.
C3_NoOverlap ==
    /\ Cardinality({t \in Tasks : InCycle(pc[t])}) <= 1
    /\ pc["periodic"] = "sleep" => rebuilds = cycle
    /\ InCycle(pc["periodic"]) => pc["startup"] = "done"

\* a periodic refresh in progress after the startup refresh
C3_Witness ==
    /\ pc["periodic"] = "gather"
    /\ pc["startup"] = "done"
    /\ cycle = 2

\* the startup refresh has fetched every batch and rebuilt the index
FirstCycleComplete ==
    /\ rebuilds >= 1
    /\ DOMAIN results["startup"] = Codes
    /\ InFlight("startup") = {}

Handled == response # NoResponse \/ chat_pc # "idle"

\* C4: no request is handled, and the periodic task is not created, before the
\* startup refresh has fetched every batch and rebuilt the index once.
C4_StartupBlocks ==
    /\ (serving \/ Handled) => FirstCycleComplete
    /\ pc["periodic"] # "not_created" => FirstCycleComplete

\* a health request answered right after the startup refresh
C4_Witness ==
    /\ response.endpoint = "/"
    /\ cycle = 1
    /\ pc["periodic"] = "sleep"

AllInFlight == {tc \in Tasks \X Codes : tc[2] \in InFlight(tc[1])}

\* C5: all fetches in flight belong to one batch of one cycle, at most 5 are
\* in flight, and while the fetches of a batch run every fetch of the earlier
\* batches has settled, its result is in the cache if it returned, and one
\* inter-batch delay has been taken per earlier batch.
C5_BatchesSequential ==
    /\ Cardinality(AllInFlight) <= 5
    /\ \A t \in Tasks :
          /\ InFlight(t) \subseteq BatchCodes(i[t])
          /\ InFlight(t) # {} => \A u \in Tasks \ {t} : InFlight(u) = {}
          /\ pc[t] = "gather" =>
                /\ delays[t] * batch_size = i[t]
                /\ \A k \in 1..i[t] :
                      /\ COUNTRIES[k].code \in DOMAIN results[t]
                      /\ Settled(results[t][COUNTRIES[k].code])
                      /\ results[t][COUNTRIES[k].code].status = "returned"
                         => music_cache[COUNTRIES[k].code] =
                                results[t][COUNTRIES[k].code].value

\* the second batch of a cycle in flight
C5_Witness ==
    \E t \in Tasks :
        /\ pc[t] = "gather"
        /\ i[t] = batch_size
        /\ InFlight(t) # {}
        /\ delays[t] = 1

\* C6: per refresh cycle the index rebuild is called exactly once, after the
\* results of the last batch are written, and its argument is exactly the set
\* of snapshots the cache holds then.
C6_RebuildOncePerCycle ==
    /\ (\E t \in Tasks : InCycle(pc[t])) => rebuilds = cycle - 1
    /\ (\A t \in Tasks : ~InCycle(pc[t])) => rebuilds = cycle
    /\ \A t \in Tasks :
          /\ pc[t] = "rag_add" =>
                /\ countries_data[t] = CacheValues(music_cache)
                /\ DOMAIN results[t] = Codes
                /\ \A c \in Codes :
                      /\ Settled(results[t][c])
                      /\ results[t][c].status = "returned"
                         => music_cache[c] = results[t][c].value

\* a rebuild of the second cycle whose input holds an entry of the first
C6_Witness ==
    /\ pc["periodic"] = "rag_add"
    /\ cycle = 2
    /\ \E country \in countries_data["periodic"] : country.updated_at = 1
    /\ \E country \in countries_data["periodic"] : country.updated_at = 2

\* C7: from the empty cache and index, a first refresh cycle in which every
\* fetch succeeded leaves one cache entry per region of the registry, stored
\* under its code, and one document per region, with the region codes as ids.
C7_EndToEndRefresh ==
    (/\ cycle = 1
     /\ pc["startup"] \in {"return", "done"}
     /\ \A c \in DOMAIN results["startup"] :
           /\ results["startup"][c].status = "returned"
           /\ results["startup"][c].outcome = "ok")
    => /\ DOMAIN music_cache = Codes
       /\ Cardinality(DOMAIN music_cache) = Len(COUNTRIES)
       /\ \A c \in Codes : music_cache[c].country_code = c
       /\ Cardinality(collection) = Len(COUNTRIES)
       /\ {d.id : d \in collection} = Codes

\* the state after a startup refresh without a failure
C7_Witness ==
    /\ cycle = 1
    /\ pc["startup"] = "done"
    /\ faults = 0
    /\ Cardinality(collection) = Len(COUNTRIES)
    /\ Cardinality(DOMAIN music_cache) = Len(COUNTRIES)

Searches == chat_pc # "select" /\ chat_pc' = "select"

\* the task that ran the last completed index rebuild
LastRebuilder == IF rebuilds >= 2 THEN "periodic" ELSE "startup"

\* C9: a search of a chat request never runs between the delete and the add
\* of an index rebuild: the documents it returns are all of the last completed
\* rebuild, and as many as that rebuild inserted (up to the number asked for),
\* never fewer because a rebuild is under way.
C9_SearchSeesOneGeneration ==
    [][Searches =>
          /\ \A t \in Tasks : pc[t] # "rag_add"
          /\ \A d \in contexts' : d.gen = rebuilds
          /\ Cardinality(contexts') =
                Min(n_results, Cardinality(countries_data[LastRebuilder]))]_vars

\* a chat request in flight, with the complete result of the first
\* generation, while the second rebuild is between its delete and its add
C9_Witness ==
    /\ pc["periodic"] = "rag_add"
    /\ chat_pc = "select"
    /\ Cardinality(contexts) = Len(COUNTRIES)
    /\ \A d \in contexts : d.gen = 1

\* C10: the first provider called is the fallback handle exactly when the
\* preference is "fallback" and a fallback handle is configured; otherwise it
\* is the primary handle.
C10_FirstProvider ==
    attempts # <<>> =>
        IF request.preferred_llm = "fallback" /\ fallback_llm_service # None
        THEN attempts[1] = fallback_llm_service /\ attempts[1] # primary_llm_service
        ELSE attempts[1] = primary_llm_service

\* a request that prefers the fallback, served first by the fallback
C10_Witness ==
    /\ attempts # <<>>
    /\ request.preferred_llm = "fallback"
    /\ attempts[1] = fallback_llm_service
    /\ fallback_llm_service # None

(***************************************************************************)
(* The events of a stream, told apart by their shape                       *)
(***************************************************************************)
\* the failover notice: a text that closes the primary's part of the stream
IsNotice(e) == e.done /\ e.chunk # <<>>

\* the terminal record
IsTerminal(e) == e.done /\ e.chunk = <<>>

\* an error fragment: a warning text sent as an ordinary fragment
IsError(e) == ~e.done /\ e.chunk # <<>> /\ e.chunk[1] = "warning "

\* the positions of the events of one kind
Positions(IsKind(_)) == {k \in 1..Len(events) : IsKind(events[k])}

\* the error texts that hold "overloaded" or "rate_limit" in some case
MarkedErrors ==
    { <<"Error code: 529 - ", "overloaded", "_error">>,
      <<"Overloaded">>,
      <<"Error code: 429 - ", "rate_limit", "_error">>,
      <<"RATE_LIMIT", " exceeded">> }

\* C11: once the first provider call has raised, a second call is made, on
\* the fallback handle, exactly when the preference is "auto", a fallback
\* handle is configured, the call that failed was on the primary handle and
\* the error text holds "overloaded" or "rate_limit" in any case; in every
\* other case there is no second call, and an error fragment follows the
\* fragments already sent.
C11_FailoverCondition ==
    error_str # <<>> =>
        IF /\ request.preferred_llm = "auto"
           /\ fallback_llm_service # None
           /\ attempts[1] = primary_llm_service
           /\ error_str \in MarkedErrors
        THEN /\ Len(attempts) = 2
             /\ attempts[2] = fallback_llm_service
        ELSE /\ Len(attempts) = 1
             /\ chat_pc \in {"final", "done"}
             /\ IsError(events[Len(outputs[1]) + 1])

\* a failover after an error whose marker is not in lower case
C11_Witness ==
    /\ error_str = <<"Overloaded">>
    /\ Len(attempts) = 2
    /\ attempts[2] = fallback_llm_service
    /\ chat_pc = "try_fallback"

\* C12: a request makes at most two provider calls, the first on the primary
\* and the second on the fallback whenever there are two, never two on one
\* handle; when the fallback call raises after a failover, whatever its error
\* text, no further call is made and an error fragment follows the fragments
\* already sent.
C12_AtMostTwoAttempts ==
    /\ Len(attempts) <= 2
    /\ Len(attempts) = 2 =>
          /\ attempts[1] = primary_llm_service
          /\ attempts[2] = fallback_llm_service
          /\ attempts[1] # attempts[2]
    /\ fallback_error_str # <<>> =>
          /\ Len(attempts) = 2
          /\ chat_pc \in {"final", "done"}
          /\ IsError(events[Len(outputs[1]) + Len(outputs[2]) + 2])

\* a stream that ended after the fallback, too, raised an overload error
C12_Witness ==
    /\ chat_pc = "done"
    /\ error_str \in MarkedErrors
    /\ fallback_error_str \in MarkedErrors
    /\ Len(attempts) = 2

\* C13: a request that prefers "fallback", with a fallback handle configured,
\* never calls the primary handle; when the fallback raises, whatever its
\* error text, no failover notice is sent and no further call is made.
C13_FallbackPreferred ==
    (request.preferred_llm = "fallback" /\ fallback_llm_service # None) =>
        /\ \A k \in 1..Len(attempts) : attempts[k] # primary_llm_service
        /\ Len(attempts) <= 1
        /\ Positions(IsNotice) = {}
        /\ error_str # <<>> =>
              /\ chat_pc \in {"final", "done"}
              /\ IsError(events[Len(outputs[1]) + 1])

\* a request that prefers the fallback, ended after the fallback raised an
\* overload error
C13_Witness ==
    /\ request.preferred_llm = "fallback"
    /\ attempts = <<fallback_llm_service>>
    /\ fallback_llm_service # None
    /\ error_str \in MarkedErrors
    /\ chat_pc = "done"

\* C14: full_response is at every moment the concatenation, in order, of the
\* fragments of the provider call that was made last, and of nothing else:
\* a failover empties it, so the terminal record carries the fallback's text
\* alone, with none of the primary's partial text, the notice or an error
\* text in it.
C14_FullResponseOfLastAttempt ==
    /\ chat_pc \in {"try_selected", "try_fallback", "final", "done"} =>
          full_response = outputs[Len(attempts)]
    /\ chat_pc = "done" =>
          /\ IsTerminal(events[Len(events)])
          /\ events[Len(events)].full_response = outputs[Len(attempts)]

\* a stream that ended after a failover in which both providers had
\* streamed text, the fallback one that the primary had not
C14_Witness ==
    /\ chat_pc = "done"
    /\ Len(attempts) = 2
    /\ outputs[1] = <<"a">>
    /\ outputs[2] = <<"b", "a">>
    /\ events[Len(events)].full_response = <<"b", "a">>

\* C15: every stream of a chat request comes to its end, unless the client
\* leaves first, and on every path (clean, failover, error, both providers
\* failed) it has then sent exactly one terminal record, with an empty chunk,
\* done set, full_response and contexts, as its last event; no terminal
\* record is sent before the end.
C15_OneTerminalRecord ==
    /\ [](chat_pc = "done" =>
            /\ Positions(IsTerminal) = {Len(events)}
            /\ DOMAIN events[Len(events)] =
                  {"chunk", "done", "full_response", "contexts"}
            /\ events[Len(events)].contexts = contexts)
    /\ [](chat_pc # "done" => Positions(IsTerminal) = {})
    /\ (chat_pc = "select") ~> (chat_pc \in {"done", "idle"})

\* the longest path: both providers streamed and raised, and the terminal
\* record closes the stream
C15_Witness ==
    /\ chat_pc = "done"
    /\ fallback_error_str # <<>>
    /\ Len(outputs[1]) = MaxChunks
    /\ Len(outputs[2]) = MaxChunks
    /\ IsTerminal(events[Len(events)])

\* C16: a stream holds exactly one failover notice (a non-empty chunk with
\* done set, which the terminal record is not) when a second provider call
\* was made and none otherwise; the notice comes right after the fragments
\* of the primary and before every fragment of the fallback.
C16_OneNotice ==
    /\ Cardinality(Positions(IsNotice)) = IF Len(attempts) = 2 THEN 1 ELSE 0
    /\ Positions(IsNotice) \cap Positions(IsTerminal) = {}
    /\ Len(attempts) = 2 =>
          /\ Positions(IsNotice) = {Len(outputs[1]) + 1}
          /\ \A k \in 1..Len(outputs[1]) :
                events[k] = Fragment(<<outputs[1][k]>>)
          /\ \A k \in 1..Len(outputs[2]) :
                events[Len(outputs[1]) + 1 + k] = Fragment(<<outputs[2][k]>>)

\* a finished stream with fragments of the primary, the notice, and
\* fragments of the fallback
C16_Witness ==
    /\ chat_pc = "done"
    /\ Len(attempts) = 2
    /\ outputs[1] # <<>>
    /\ outputs[2] # <<>>
    /\ IsNotice(events[Len(outputs[1]) + 1])

\* the chat handler has answered a request: by a response body of its own or
\* by the events of a stream
Answered == response.endpoint = "/chat" \/ events # <<>>

\* C17: when no provider handle is configured, a chat request calls no
\* provider, and its answer is a stream of a single fragment, the
\* configuration error, and not a response of another shape.
C17_NotConfiguredIsFragment ==
    (primary_llm_service = None /\ Answered) =>
        /\ attempts = <<>>
        /\ response = NoResponse
        /\ Len(events) = 1
        /\ ~events[1].done
        /\ events[1].chunk # <<>>

\* a provider call has raised and no later call has made up for it
Unrecovered ==
    \/ error_str # <<>> /\ Len(attempts) = 1
    \/ fallback_error_str # <<>>

\* C18: a provider's exception never ends the stream: when a call has raised
\* and no fallback call made up for it, the stream holds exactly one error
\* fragment, with done unset, after the fragments already sent and right
\* before the terminal record; a generation that came through, at once or
\* on the fallback, holds no error fragment.
C18_OneErrorFragment ==
    /\ chat_pc \in {"select", "try_selected", "try_fallback"} =>
          Positions(IsError) = {}
    /\ chat_pc = "final" =>
          Positions(IsError) = IF Unrecovered THEN {Len(events)} ELSE {}
    /\ chat_pc = "done" =>
          /\ Positions(IsError) = IF Unrecovered THEN {Len(events) - 1} ELSE {}
          /\ IsTerminal(events[Len(events)])

\* a finished stream whose primary raised, after a fragment, an error that
\* admits no failover
C18_Witness ==
    /\ chat_pc = "done"
    /\ error_str = <<"Connection error.">>
    /\ outputs = << <<"a">> >>
    /\ IsError(events[2])
    /\ Len(events) = 3

\* C19: no step of a chat request, on any path (clean, failover, error,
\* not configured, client gone), changes the region cache or the retrieval
\* index.
C19_ChatReadsOnly ==
    [][music_cache' = music_cache /\ collection' = collection]_vars

\* a stream that went through search, failover and the terminal record,
\* over a filled cache and index
C19_Witness ==
    /\ chat_pc = "done"
    /\ Len(attempts) = 2
    /\ contexts # {}
    /\ contexts \subseteq collection
    /\ DOMAIN music_cache = Codes

\* C20: when the client leaves while a stream runs, the generation ends
\* there: in the step of the cancellation and ever after, until another
\* request, no fragment is pulled from a provider, no event is added (so no
\* error fragment and no notice: the cancellation is not taken for a
\* provider's error) and no provider call is started.
C20_DisconnectCancels ==
    [][cancelled' =>
          /\ chat_pc' = "idle"
          /\ events' = events
          /\ attempts' = attempts
          /\ outputs' = outputs]_vars

\* the client has left while the primary was streaming, after one fragment
C20_Witness ==
    /\ cancelled
    /\ chat_pc = "idle"
    /\ attempts = <<primary_llm_service>>
    /\ fallback_llm_service # None
    /\ outputs = << <<"a">> >>
    /\ events = <<Fragment(<<"a">>)>>

\* C21: the region cache is written by the write-back of a refresh cycle and
\* by no other step; its key set never shrinks; every key is a region code
\* of the registry, and the snapshot under a key carries that code.
C21_CacheWrittenByRefreshOnly ==
    /\ [](/\ DOMAIN music_cache \subseteq Codes
          /\ \A c \in DOMAIN music_cache : music_cache[c].country_code = c)
    /\ [][/\ DOMAIN music_cache \subseteq DOMAIN music_cache'
          /\ music_cache' # music_cache =>
                \E t \in Tasks : pc[t] = "gather" /\ pc'[t] \in {"delay", "rebuild"}]_vars

\* the second cycle has written its results back: a region whose fetch
\* raised keeps its entry of the first cycle, its siblings are replaced
C21_Witness ==
    /\ pc["periodic"] = "rebuild"
    /\ DOMAIN music_cache = Codes
    /\ \E c \in Codes :
          /\ results["periodic"][c].status = "raised"
          /\ music_cache[c].updated_at = 1
          /\ \A d \in Codes \ {c} : music_cache[d].updated_at = 2

C23_AtLeastThirtyRegions ==
    /\ serving => Cardinality(DOMAIN music_cache) >= min_countries
    /\ response.endpoint = "/" => response.countries >= min_countries
    /\ response.endpoint = "/countries" =>
          Cardinality(response.body) >= min_countries

\* the /countries list served after a startup in which the provider was
\* down and the fetch of one region raised
C23_Witness ==
    /\ serving
    /\ response.endpoint = "/countries"
    /\ Cardinality(response.body) = Len(Registry) - 1
    /\ \A e \in response.body : e.source = "none" /\ e.tracks = <<>>

\* C24: the system prompt built for a chat request lists every playlist of
\* the request with the name and the item count that the caller supplied,
\* and says that none is created yet when the request has no playlist.
C24_PlaylistsRendered ==
    system_prompt # NoPrompt =>
        IF request.playlists = <<>>
        THEN system_prompt =
                [heading |-> "USER'S PLAYLISTS: None created yet.", lines |-> <<>>]
        ELSE /\ Len(system_prompt.lines) = Len(request.playlists)
             /\ \A k \in 1..Len(request.playlists) :
                   LET playlist == request.playlists[k]
                       line == system_prompt.lines[k]
                   IN  /\ "name" \in playlist.has => line.name = playlist.name
                       /\ "item_count" \in playlist.has =>
                             line.track_count = playlist.item_count

\* the fetches that are in flight in task t after a step
Started(t) == {c \in DOMAIN results'[t] : results'[t][c] = Pending}

\* the registry codes at the places lo..hi
Slice(lo, hi) == {COUNTRIES[k].code : k \in lo..hi}

\* C26: in one refresh cycle every region is fetched exactly once: each batch
\* starts the fetches of the next at most 5 regions in registry order, none of
\* which was fetched in this cycle before, the batches cover the registry when
\* the rebuild starts, and a delay is taken after every batch but the last.
C26_EveryRegionOncePerCycle ==
    [][\A t \in Tasks :
          LET fetched == DOMAIN results[t]
              n == Cardinality(fetched)
          IN  /\ (pc[t] = "batch" /\ pc'[t] = "gather") =>
                    /\ fetched = Slice(1, n)
                    /\ n < Len(COUNTRIES)
                    /\ Started(t) = Slice(n + 1, Min(n + 5, Len(COUNTRIES)))
                    /\ DOMAIN results'[t] = fetched \cup Started(t)
              /\ (pc[t] = "gather" /\ pc'[t] = "delay") =>
                    /\ fetched # Codes
                    /\ delays'[t] = delays[t]
              /\ (pc[t] = "delay" /\ pc'[t] = "batch") =>
                    /\ delays'[t] = delays[t] + 1
                    /\ delays'[t] * 5 = n
              /\ (pc[t] = "gather" /\ pc'[t] = "rebuild") =>
                    /\ fetched = Codes
                    /\ delays[t] = (Len(COUNTRIES) - 1) \div 5
              /\ pc'[t] = "rebuild" => pc[t] \in {"gather", "rebuild"}]_vars

\* a cycle of two batches at the start of its rebuild: one delay was taken
C26_Witness ==
    \E t \in Tasks :
        /\ pc[t] = "rebuild"
        /\ Len(COUNTRIES) > batch_size
        /\ DOMAIN results[t] = Codes
        /\ delays[t] = 1

\* C27: every fragment that a provider call produces is forwarded by the same
\* step as one event of its own, before the call is asked for the next one;
\* the events already sent are never changed or taken back by a later step,
\* a failure included; and the fallback is called only when every fragment of
\* the primary has been forwarded, so its fragments come after them.
C27_FragmentsForwardedAtOnce ==
    [][/\ \A k \in 1..Len(outputs) :
             (k <= Len(outputs') /\ outputs'[k] # outputs[k]) =>
                 /\ k = Len(attempts)
                 /\ \E chunk \in Chunks :
                       /\ outputs'[k] = Append(outputs[k], chunk)
                       /\ events' = Append(events, Fragment(<<chunk>>))
       /\ events' # <<>> =>
             /\ Len(events') \in {Len(events), Len(events) + 1}
             /\ SubSeq(events', 1, Len(events)) = events
       /\ Len(attempts') > Len(attempts) /\ Len(attempts) = 1 =>
             /\ events' = Append(events, Notice(settings))
             /\ \A k \in 1..Len(outputs[1]) :
                   events[k] = Fragment(<<outputs[1][k]>>)
             /\ outputs' = Append(outputs, <<>>)]_vars

\* the fallback streaming after a primary that failed in the middle of its
\* text: the fragments of the primary are still the first events
C27_Witness ==
    /\ chat_pc = "try_fallback"
    /\ outputs[1] = <<"a", "b">>
    /\ outputs[2] = <<"b">>
    /\ Len(events) = 4
    /\ events[1] = Fragment(<<"a">>)
    /\ events[2] = Fragment(<<"b">>)
    /\ events[4] = Fragment(<<"b">>)

\* C28: whenever the server has started and no refresh cycle is in progress,
\* the ids of the documents of the index are the keys of the cache, and the
\* metadata of every document (region name, source, item count, timestamp)
\* are those of the cache entry of its region.
C28_IndexMirrorsCache ==
    (pc["startup"] = "done" /\ \A t \in Tasks : ~InCycle(pc[t])) =>
        /\ {d.id : d \in collection} = DOMAIN music_cache
        /\ \A d \in collection :
              /\ d.country_name = music_cache[d.id].country_name
              /\ d.source = music_cache[d.id].source
              /\ d.track_count = Len(music_cache[d.id].tracks)
              /\ d.updated_at = music_cache[d.id].updated_at

\* the server has started and the refresh cycle numbered n is over: its index
\* rebuild has returned or has raised
CycleEnded(n) ==
    /\ cycle = n
    /\ pc["startup"] = "done"
    /\ \A t \in Tasks : ~InCycle(pc[t])

\* C29: after startup the end of every refresh cycle, one whose index rebuild
\* raised included, is eventually followed by the start of the next cycle
\* (for the last cycle that the bound allows: by the periodic task waiting to
\* start it).
C29_CyclesRecur ==
    \A n \in 1..MaxCycles :
        CycleEnded(n) ~>
            (cycle > n \/ (n = MaxCycles /\ pc["periodic"] = "sleep"))

\* the chunks of the events of one kind after the place p, concatenated in
\* the order of the stream
RECURSIVE ChunksAfter(_, _, _)
ChunksAfter(IsKind(_), p, k) ==
    IF k > Len(events) THEN <<>>
    ELSE (IF k > p /\ IsKind(events[k]) THEN events[k].chunk ELSE <<>>)
         \o ChunksAfter(IsKind, p, k + 1)

\* the place of the failover notice, 0 in a stream without one
NoticePlace == IF Positions(IsNotice) = {} THEN 0
               ELSE CHOOSE p \in Positions(IsNotice) : TRUE

Ended == events # <<>> /\ IsTerminal(events[Len(events)])

IsFragment(e) == ~e.done

IsProviderFragment(e) == ~e.done /\ ~IsError(e)

\* C30 as stated: the full_response of the terminal record is the
\* concatenation of the chunks of all fragments with done unset that were
\* sent after the failover notice, or since the start without a notice.
C30_FullResponseIsAllFragments ==
    Ended => events[Len(events)].full_response = ChunksAfter(IsFragment, NoticePlace, 1)

\* C30, amended: the full_response of the terminal record is the
\* concatenation of the chunks of the fragments with done unset, other than
\* an error fragment, that were sent after the failover notice, or since the
\* start without a notice; in a stream with no error fragment these are all
\* the fragments with done unset.
C30_FullResponseIsProviderFragments ==
    Ended =>
        /\ events[Len(events)].full_response =
                ChunksAfter(IsProviderFragment, NoticePlace, 1)
        /\ Positions(IsError) = {} =>
                events[Len(events)].full_response =
                    ChunksAfter(IsFragment, NoticePlace, 1)

\* a finished stream with text of the primary, the notice, text of the
\* fallback and the error fragment of the fallback's failure
C30_Witness ==
    /\ Ended
    /\ NoticePlace = 2
    /\ Positions(IsError) = {Len(events) - 1}
    /\ events[Len(events)].full_response = <<"b", "a">>

\* the provider that a name in an error text stands for
ProviderNamed(name) ==
    CASE name = "Anthropic (Claude)" -> "anthropic"
      [] name \in {"OpenAI", "OpenAI (GPT-4)"} -> "openai"
      [] OTHER -> "none"

\* the error fragments whose text names a provider
NamingErrors ==
    {k \in Positions(IsError) : ProviderNamed(events[k].chunk[2]) # "none"}

\* C31: an error fragment that names a provider names the provider of the
\* call that failed, whatever the configured primary and fallback and the
\* preference of the request.
C31_ErrorNamesFailedProvider ==
    \A k \in NamingErrors :
        ProviderNamed(events[k].chunk[2]) = attempts[Len(attempts)].provider

Handles == {primary_llm_service, fallback_llm_service} \ {None}

\* C32: a fallback handle is configured only with a primary handle, the two
\* handles are of different providers, one anthropic and one openai, every
\* configured handle holds a credential, and no step of a request or of a
\* refresh cycle changes a handle.
C32_HandlesFixedAndDistinct ==
    /\ [](/\ fallback_llm_service # None => primary_llm_service # None
          /\ fallback_llm_service # None =>
                {primary_llm_service.provider, fallback_llm_service.provider} =
                    {"anthropic", "openai"}
          /\ \A handle \in Handles :
                /\ handle.provider \in {"anthropic", "openai"}
                /\ handle.api_key # "")
    /\ [][/\ primary_llm_service' = primary_llm_service
          /\ fallback_llm_service' = fallback_llm_service]_vars

\* a request on the fallback of an openai primary during the second refresh
\* cycle
C32_Witness ==
    /\ primary_llm_service.provider = "openai"
    /\ fallback_llm_service.provider = "anthropic"
    /\ chat_pc = "try_selected"
    /\ selected_service = fallback_llm_service
    /\ pc["periodic"] = "gather"

====
